---- MODULE Spec2Model ----
(***************************************************************************)
(* Okta group -> GitHub team reconciliation of github-ops-app.             *)
(*                                                                         *)
(* internal/github/teams.go   GetOrCreateTeam, GetTeamMembers,             *)
(*                            SyncTeamMembers                              *)
(* internal/github/client.go  IsExternalCollaborator, ListOrgMembers       *)
(* internal/okta/sync.go      Sync, syncRule, computeTeamName,             *)
(*                            syncGroupToTeam, DetectOrphanedUsers         *)
(* internal/okta (groups)     GetGroupsByPattern, GetGroupInfo             *)
(* internal/app               handleOktaSync and its triggers,             *)
(*                            HandleRequest, ProcessWebhook                *)
(*                                                                         *)
(* Logins are small naturals, names are sequences of one-character         *)
(* strings.  The GitHub and Okta services are the environment: their       *)
(* state is held in the variables teams, external, orgMembers and groups,  *)
(* and the API calls that fail are drawn per run (NoFail: none does).     *)
(* A team roster always fits on the single page GetTeamMembers requests.   *)
(***************************************************************************)
EXTENDS Integers, Sequences, FiniteSets, TLC

VARIABLES
    teams,            \* workspace: slug -> set of logins, for existing teams
    external,         \* logins GetOrgMembership answers 404 for
    orgMembers,       \* logins Organizations.ListMembers returns
    groups,           \* directory: group name -> GroupInfo
    rules,            \* Syncer.rules
    safetyThreshold,  \* Syncer.safetyThreshold, in units of 1/ThresholdDen
    pc,               \* position of the caller: "idle" or "done"
    out,              \* what the last call was given and what it returned
    procs             \* concurrent handleOktaSync invocations (SpecConc)

vars == <<teams, external, orgMembers, groups, rules, safetyThreshold, pc, out, procs>>

(***************************************************************************)
(* Bounds                                                                  *)
(***************************************************************************)
MaxUsers == 3

ThresholdDen == 2

Users == 1..MaxUsers

Thresholds == 0..ThresholdDen

(***************************************************************************)
(* Sequence helpers                                                        *)
(***************************************************************************)
Range(s) == {s[i] : i \in 1..Len(s)}

RECURSIVE SortedSeq(_)
SortedSeq(S) ==
    IF S = {} THEN <<>>
    ELSE LET m == CHOOSE x \in S : \A y \in S : x <= y
         IN  <<m>> \o SortedSeq(S \ {m})

(***************************************************************************)
(* Failures of the GitHub API, fixed for the duration of one call of the   *)
(* engine.  opFail: logins whose add/remove membership call fails;         *)
(* checkFail: logins whose org-membership lookup fails (not a 404);        *)
(* listFail: slugs whose member listing fails; getFail: slugs whose        *)
(* GetTeamBySlug fails with something other than 404; createFail: names    *)
(* whose CreateTeam fails; orgFail: the org member listing fails.  Of the   *)
(* Okta API: groupsFail: listing or searching groups fails; membersFail:   *)
(* group names whose member listing fails.                                 *)
(***************************************************************************)
NoFail == [opFail |-> {}, checkFail |-> {}, listFail |-> {}, getFail |-> {},
           createFail |-> {}, groupsFail |-> FALSE, membersFail |-> {},
           orgFail |-> FALSE]

(***************************************************************************)
(* internal/github/client.go                                               *)
(***************************************************************************)
\* a 404 answered with false instead of true
IsExternalCollaborator_404False(ext, api, username) ==
    IF username \in api.checkFail THEN "err" ELSE "no"

\* IsExternalCollaborator: "err" on a failed lookup, else TRUE exactly for a 404
IsExternalCollaborator(ext, api, username) ==
    IF username \in api.checkFail THEN "err"
    ELSE IF username \in ext THEN "yes" ELSE "no"

(***************************************************************************)
(* internal/github/teams.go                                                *)
(***************************************************************************)
\* GetTeamMembers: the logins of the team, or "err"
GetTeamMembers(ts, api, teamSlug) ==
    IF teamSlug \in api.listFail \/ teamSlug \notin DOMAIN ts
    THEN [err |-> TRUE, logins |-> <<>>]
    ELSE [err |-> FALSE, logins |-> SortedSeq(ts[teamSlug])]

EmptyResult(teamSlug, roster) ==
    [TeamName |-> teamSlug, MembersAdded |-> <<>>, MembersRemoved |-> <<>>,
     MembersSkippedExternal |-> <<>>, Errors |-> <<>>,
     roster |-> roster, calls |-> <<>>]

\* the add loop given up at the first add that fails
RECURSIVE AddLoop_StopAtFailure(_, _, _, _)
AddLoop_StopAtFailure(r, desiredMembers, currentSet, api) ==
    IF desiredMembers = <<>> THEN r
    ELSE LET desired == Head(desiredMembers)
             rest    == Tail(desiredMembers)
         IN  IF desired \in currentSet
             THEN AddLoop_StopAtFailure(r, rest, currentSet, api)
             ELSE IF desired \in api.opFail
             THEN [r EXCEPT
                     !.Errors = Append(@, [kind |-> "add", user |-> desired, team |-> r.TeamName]),
                     !.calls  = Append(@, <<"add", r.TeamName, desired>>)]
             ELSE AddLoop_StopAtFailure([r EXCEPT
                     !.MembersAdded = Append(@, desired),
                     !.roster = @ \cup {desired},
                     !.calls  = Append(@, <<"add", r.TeamName, desired>>)],
                     rest, currentSet, api)

\* teams.go:101-111, the add loop: desiredMembers in order, against currentSet
RECURSIVE AddLoop(_, _, _, _)
AddLoop(r, desiredMembers, currentSet, api) ==
    IF desiredMembers = <<>> THEN r
    ELSE LET desired == Head(desiredMembers)
             rest    == Tail(desiredMembers)
         IN  IF desired \in currentSet THEN AddLoop(r, rest, currentSet, api)
             ELSE IF desired \in api.opFail
             THEN AddLoop([r EXCEPT
                     !.Errors = Append(@, [kind |-> "add", user |-> desired, team |-> r.TeamName]),
                     !.calls  = Append(@, <<"add", r.TeamName, desired>>)],
                     rest, currentSet, api)
             ELSE AddLoop([r EXCEPT
                     !.MembersAdded = Append(@, desired),
                     !.roster = @ \cup {desired},
                     !.calls  = Append(@, <<"add", r.TeamName, desired>>)],
                     rest, currentSet, api)

\* the removal candidates without the last one
ToRemove_DropLast(currentMembers, desiredSet) ==
    LET all == SelectSeq(currentMembers, LAMBDA current : current \notin desiredSet)
    IN  IF all = <<>> THEN all ELSE SubSeq(all, 1, Len(all) - 1)

\* no removal candidate at all
ToRemove_None(currentMembers, desiredSet) == <<>>

\* every current member a removal candidate
ToRemove_Everyone(currentMembers, desiredSet) == currentMembers

\* teams.go:113-118
ToRemove(currentMembers, desiredSet) ==
    SelectSeq(currentMembers, LAMBDA current : current \notin desiredSet)

\* the ceiling triggered by a ratio equal to it as well
CeilingExceeded_AtOrAbove(nRemove, nCurrent, threshold) ==
    /\ nCurrent > 0
    /\ nRemove * ThresholdDen >= threshold * nCurrent

\* teams.go:120-122: float64(len(toRemove)) / float64(len(currentMembers)) > threshold
CeilingExceeded(nRemove, nCurrent, threshold) ==
    /\ nCurrent > 0
    /\ nRemove * ThresholdDen > threshold * nCurrent

\* a candidate whose check failed taken for a member and removed all the same
RECURSIVE RemoveLoop_RemoveOnFailedCheck(_, _, _, _)
RemoveLoop_RemoveOnFailedCheck(r, toRemove, ext, api) ==
    IF toRemove = <<>> THEN r
    ELSE LET username   == Head(toRemove)
             rest       == Tail(toRemove)
             isExternal == IsExternalCollaborator(ext, api, username)
             checked    == IF isExternal = "err"
                           THEN [r EXCEPT !.Errors = Append(@,
                                   [kind |-> "check", user |-> username, team |-> r.TeamName])]
                           ELSE r
         IN  IF isExternal = "yes"
             THEN RemoveLoop_RemoveOnFailedCheck([checked EXCEPT
                     !.MembersSkippedExternal = Append(@, username)],
                     rest, ext, api)
             ELSE IF username \in api.opFail
             THEN RemoveLoop_RemoveOnFailedCheck([checked EXCEPT
                     !.Errors = Append(@, [kind |-> "remove", user |-> username, team |-> r.TeamName]),
                     !.calls  = Append(@, <<"remove", r.TeamName, username>>)],
                     rest, ext, api)
             ELSE RemoveLoop_RemoveOnFailedCheck([checked EXCEPT
                     !.MembersRemoved = Append(@, username),
                     !.roster = @ \ {username},
                     !.calls  = Append(@, <<"remove", r.TeamName, username>>)],
                     rest, ext, api)

\* teams.go:130-150, the remove loop
RECURSIVE RemoveLoop(_, _, _, _)
RemoveLoop(r, toRemove, ext, api) ==
    IF toRemove = <<>> THEN r
    ELSE LET username   == Head(toRemove)
             rest       == Tail(toRemove)
             isExternal == IsExternalCollaborator(ext, api, username)
         IN  IF isExternal = "err"
             THEN RemoveLoop([r EXCEPT
                     !.Errors = Append(@, [kind |-> "check", user |-> username, team |-> r.TeamName])],
                     rest, ext, api)
             ELSE IF isExternal = "yes"
             THEN RemoveLoop([r EXCEPT
                     !.MembersSkippedExternal = Append(@, username)],
                     rest, ext, api)
             ELSE IF username \in api.opFail
             THEN RemoveLoop([r EXCEPT
                     !.Errors = Append(@, [kind |-> "remove", user |-> username, team |-> r.TeamName]),
                     !.calls  = Append(@, <<"remove", r.TeamName, username>>)],
                     rest, ext, api)
             ELSE RemoveLoop([r EXCEPT
                     !.MembersRemoved = Append(@, username),
                     !.roster = @ \ {username},
                     !.calls  = Append(@, <<"remove", r.TeamName, username>>)],
                     rest, ext, api)

\* the ratio taken over the candidates that are not outside collaborators
SyncTeamMembers_CeilingOnRemovable(ts, ext, api, teamSlug, desiredMembers, safetyThresholdArg) ==
    LET withMembers(fetched) ==
            IF fetched.err
            THEN [err |-> TRUE,
                  res |-> EmptyResult(teamSlug,
                            IF teamSlug \in DOMAIN ts THEN ts[teamSlug] ELSE {})]
            ELSE
            LET currentMembers == fetched.logins
                currentSet     == Range(currentMembers)
                desiredSet     == Range(desiredMembers)
                removable(toRemove) == SelectSeq(toRemove, LAMBDA u : u \notin ext)
                afterAdds(added, toRemove) ==
                    IF CeilingExceeded(Len(removable(toRemove)), Len(currentMembers),
                                       safetyThresholdArg)
                    THEN [err |-> FALSE,
                          res |-> [added EXCEPT !.Errors = Append(@,
                                     [kind |-> "ceiling", user |-> 0, team |-> teamSlug])]]
                    ELSE [err |-> FALSE, res |-> RemoveLoop(added, toRemove, ext, api)]
            IN  afterAdds(AddLoop(EmptyResult(teamSlug, currentSet), desiredMembers,
                                  currentSet, api),
                          ToRemove(currentMembers, desiredSet))
    IN  withMembers(GetTeamMembers(ts, api, teamSlug))

\* SyncTeamMembers: [err, res]; res.roster is the team's roster when it returns
SyncTeamMembers(ts, ext, api, teamSlug, desiredMembers, safetyThresholdArg) ==
    LET withMembers(fetched) ==
            IF fetched.err
            THEN [err |-> TRUE,
                  res |-> EmptyResult(teamSlug,
                            IF teamSlug \in DOMAIN ts THEN ts[teamSlug] ELSE {})]
            ELSE
            LET currentMembers == fetched.logins
                currentSet     == Range(currentMembers)
                desiredSet     == Range(desiredMembers)
                afterAdds(added, toRemove) ==
                    IF CeilingExceeded(Len(toRemove), Len(currentMembers), safetyThresholdArg)
                    THEN [err |-> FALSE,
                          res |-> [added EXCEPT !.Errors = Append(@,
                                     [kind |-> "ceiling", user |-> 0, team |-> teamSlug])]]
                    ELSE [err |-> FALSE, res |-> RemoveLoop(added, toRemove, ext, api)]
            IN  afterAdds(AddLoop(EmptyResult(teamSlug, currentSet), desiredMembers,
                                  currentSet, api),
                          ToRemove(currentMembers, desiredSet))
    IN  withMembers(GetTeamMembers(ts, api, teamSlug))

\* GitHub derives the slug of a created team from its name
LowerChar(c) ==
    CASE c = "E" -> "e"
      [] c = "T" -> "t"
      [] OTHER   -> c

SlugChars ==
    {"a", "b", "c", "d", "e", "f", "g", "h", "i", "j", "k", "l", "m", "n", "o",
     "p", "q", "r", "s", "t", "u", "v", "w", "x", "y", "z", "0", "1", "2", "3",
     "4", "5", "6", "7", "8", "9", "-"}

\* the replacement without the lower-casing
Normalize_NoLower(name) ==
    [i \in 1..Len(name) |-> IF name[i] \in SlugChars THEN name[i] ELSE "-"]

\* strings.ToLower, then regexp [^a-z0-9-] replaced by "-"
Normalize(name) ==
    [i \in 1..Len(name) |->
        IF LowerChar(name[i]) \in SlugChars THEN LowerChar(name[i]) ELSE "-"]

Slugify(name) == Normalize(name)

\* GetOrCreateTeam: [err, team, teams, calls]; err is "none", "fetch" or "create"
GetOrCreateTeam(ts, api, teamName, privacy) ==
    IF teamName \in api.getFail
    THEN [err |-> "fetch", team |-> [Slug |-> <<>>], teams |-> ts,
          calls |-> << <<"get", teamName>> >>]
    ELSE IF teamName \in DOMAIN ts
    THEN [err |-> "none", team |-> [Slug |-> teamName], teams |-> ts,
          calls |-> << <<"get", teamName>> >>]
    ELSE IF teamName \in api.createFail \/ Slugify(teamName) \in DOMAIN ts
    THEN [err |-> "create", team |-> [Slug |-> <<>>], teams |-> ts,
          calls |-> << <<"get", teamName>>, <<"create", teamName>> >>]
    ELSE [err |-> "none", team |-> [Slug |-> Slugify(teamName)],
          teams |-> [s \in DOMAIN ts \cup {Slugify(teamName)} |->
                        IF s \in DOMAIN ts THEN ts[s] ELSE {}],
          calls |-> << <<"get", teamName>>, <<"create", teamName>> >>]

(***************************************************************************)
(* internal/okta: the directory.  groups is the list ListGroups returns;   *)
(* each entry carries what GetGroupMembers derives for it.                 *)
(***************************************************************************)
IsPrefix(p, s) == Len(p) <= Len(s) /\ SubSeq(s, 1, Len(p)) = p

\* strings.TrimPrefix
TrimPrefix(s, prefix) ==
    IF IsPrefix(prefix, s) THEN SubSeq(s, Len(prefix) + 1, Len(s)) ELSE s

\* regexp.Compile, for the patterns used here: literal characters, an optional
\* leading "^", and "(" which does not compile without its ")"
Compiles(pattern) == "(" \notin Range(pattern)

\* re.MatchString: unanchored unless the pattern starts with "^"
MatchString(pattern, name) ==
    IF pattern # <<>> /\ Head(pattern) = "^"
    THEN IsPrefix(Tail(pattern), name)
    ELSE \E i \in 0..(Len(name) - Len(pattern)) :
            SubSeq(name, i + 1, i + Len(pattern)) = pattern

\* a value of the profile map, as the type assertion .(string) sees it:
\* str FALSE is a missing key or a value that is not a string
NotString == [str |-> FALSE, val |-> 0]

\* client.go:204-221, the loop over the listed users.  A user is
\* [Status, Profile]; Profile is <<>> (nil) or <<[github, email]>>
RECURSIVE GroupMembersLoop(_, _)
GroupMembersLoop(result, users) ==
    IF users = <<>> THEN result
    ELSE LET user == Head(users)
             rest == Tail(users)
         IN  IF user.Status # "ACTIVE" THEN GroupMembersLoop(result, rest)
             ELSE IF user.Profile = <<>> THEN GroupMembersLoop(result, rest)
             ELSE LET githubUsername == user.Profile[1].github
                      email          == user.Profile[1].email
                  IN  IF githubUsername.str /\ githubUsername.val # 0
                      THEN GroupMembersLoop(
                              [result EXCEPT !.Members = Append(@, githubUsername.val)],
                              rest)
                      ELSE IF email.str /\ email.val # 0
                      THEN GroupMembersLoop(
                              [result EXCEPT !.SkippedNoGitHubUsername =
                                                Append(@, email.val)],
                              rest)
                      ELSE GroupMembersLoop(result, rest)

\* GetGroupMembers: [err, Members, SkippedNoGitHubUsername]; users is what
\* ListGroupUsers answers for the group
GetGroupMembers(users, api, groupID) ==
    IF groupID \in api.membersFail
    THEN [err |-> TRUE, Members |-> <<>>, SkippedNoGitHubUsername |-> <<>>]
    ELSE GroupMembersLoop([err |-> FALSE, Members |-> <<>>,
                           SkippedNoGitHubUsername |-> <<>>], users)

\* GetGroupsByPattern: [err, groups]
GetGroupsByPattern(dir, api, pattern) ==
    IF pattern = <<>> THEN [err |-> "EmptyPattern", groups |-> <<>>]
    ELSE IF ~Compiles(pattern) THEN [err |-> "InvalidPattern", groups |-> <<>>]
    ELSE IF api.groupsFail THEN [err |-> "ListGroups", groups |-> <<>>]
    ELSE [err |-> "none",
          groups |-> SelectSeq(dir, LAMBDA g :
                        /\ g.Name # <<>>
                        /\ MatchString(pattern, g.Name)
                        /\ g.Name \notin api.membersFail)]

\* GetGroupInfo (GetGroupByName, then GetGroupMembers): [err, group]
GetGroupInfo(dir, api, groupName) ==
    LET found == SelectSeq(dir, LAMBDA g : g.Name = groupName)
    IN  IF api.groupsFail THEN [err |-> "ListGroups", group |-> <<>>]
        ELSE IF found = <<>> THEN [err |-> "GroupNotFound", group |-> <<>>]
        ELSE IF groupName \in api.membersFail
        THEN [err |-> "GetGroupMembers", group |-> <<>>]
        ELSE [err |-> "none", group |-> Head(found)]

(***************************************************************************)
(* internal/okta/sync.go                                                   *)
(***************************************************************************)
\* every rule taken for enabled
IsEnabled_Always(rule) == TRUE

\* SyncRule.IsEnabled, SyncRule.ShouldSyncMembers: an unset pointer means true
IsEnabled(rule) == rule.Enabled \in {"nil", "true"}

\* members synced whatever the rule says
ShouldSyncMembers_Always(rule) == TRUE

ShouldSyncMembers(rule) == rule.SyncMembers \in {"nil", "true"}

GetName(rule) ==
    IF rule.Name # <<>> THEN rule.Name
    ELSE IF rule.GitHubTeamName # <<>> THEN rule.GitHubTeamName
    ELSE rule.OktaGroupName

computeTeamName(oktaGroupName, rule) ==
    IF rule.GitHubTeamName # <<>> THEN rule.GitHubTeamName
    ELSE LET stripped == IF rule.StripPrefix # <<>>
                         THEN TrimPrefix(oktaGroupName, rule.StripPrefix)
                         ELSE oktaGroupName
             prefixed == IF rule.GitHubTeamPrefix # <<>>
                         THEN rule.GitHubTeamPrefix \o stripped
                         ELSE stripped
         IN  Normalize(prefixed)

\* a report; slug and calls are not fields of SyncReport: they record the team
\* SyncTeamMembers was called on and the API calls made for this pair
NewReport(rule, group, teamName) ==
    [Rule |-> GetName(rule), OktaGroup |-> group.Name, GitHubTeam |-> teamName,
     MembersAdded |-> <<>>, MembersRemoved |-> <<>>,
     MembersSkippedExternal |-> <<>>,
     MembersSkippedNoGHUsername |-> group.SkippedNoGitHubUsername,
     Errors |-> <<>>, slug |-> <<>>]

\* the members synced on the team of that name although get-or-create failed
syncGroupToTeam_SyncAfterTeamError(ts, ext, api, threshold, rule, group, teamName) ==
    LET report  == NewReport(rule, group, teamName)
        privacy == IF rule.TeamPrivacy # <<>> THEN rule.TeamPrivacy ELSE <<"closed">>
        withMembers(got, teamSlug, synced, errs) ==
            IF synced.err
            THEN [report |-> [report EXCEPT
                                !.Errors = errs \o << [kind |-> "sync", user |-> 0, team |-> teamSlug] >>,
                                !.slug = teamSlug],
                  teams |-> got.teams,
                  calls |-> got.calls \o << <<"list", teamSlug>> >>]
            ELSE [report |-> [report EXCEPT
                                !.MembersAdded = synced.res.MembersAdded,
                                !.MembersRemoved = synced.res.MembersRemoved,
                                !.MembersSkippedExternal = synced.res.MembersSkippedExternal,
                                !.Errors = errs \o synced.res.Errors,
                                !.slug = teamSlug],
                  teams |-> [got.teams EXCEPT ![teamSlug] = synced.res.roster],
                  calls |-> got.calls \o << <<"list", teamSlug>> >> \o synced.res.calls]
        withTeam(got) ==
            IF got.err # "none"
            THEN withMembers(got, teamName,
                             SyncTeamMembers(got.teams, ext, api, teamName,
                                             group.Members, threshold),
                             << [kind |-> "team", user |-> 0, team |-> teamName] >>)
            ELSE IF ~ShouldSyncMembers(rule)
            THEN [report |-> report, teams |-> got.teams, calls |-> got.calls]
            ELSE withMembers(got, got.team.Slug,
                             SyncTeamMembers(got.teams, ext, api, got.team.Slug,
                                             group.Members, threshold), <<>>)
    IN  withTeam(GetOrCreateTeam(ts, api, teamName, privacy))

\* syncGroupToTeam: [report, teams, calls]
syncGroupToTeam(ts, ext, api, threshold, rule, group, teamName) ==
    LET report  == NewReport(rule, group, teamName)
        privacy == IF rule.TeamPrivacy # <<>> THEN rule.TeamPrivacy ELSE <<"closed">>
        withMembers(got, teamSlug, synced) ==
            IF synced.err
            THEN [report |-> [report EXCEPT
                                !.Errors = << [kind |-> "sync", user |-> 0, team |-> teamSlug] >>,
                                !.slug = teamSlug],
                  teams |-> got.teams,
                  calls |-> got.calls \o << <<"list", teamSlug>> >>]
            ELSE [report |-> [report EXCEPT
                                !.MembersAdded = synced.res.MembersAdded,
                                !.MembersRemoved = synced.res.MembersRemoved,
                                !.MembersSkippedExternal = synced.res.MembersSkippedExternal,
                                !.Errors = synced.res.Errors,
                                !.slug = teamSlug],
                  teams |-> [got.teams EXCEPT ![teamSlug] = synced.res.roster],
                  calls |-> got.calls \o << <<"list", teamSlug>> >> \o synced.res.calls]
        withTeam(got) ==
            IF got.err # "none"
            THEN [report |-> [report EXCEPT !.Errors =
                                << [kind |-> "team", user |-> 0, team |-> teamName] >>],
                  teams |-> got.teams, calls |-> got.calls]
            ELSE IF ~ShouldSyncMembers(rule)
            THEN [report |-> report, teams |-> got.teams, calls |-> got.calls]
            ELSE withMembers(got, got.team.Slug,
                             SyncTeamMembers(got.teams, ext, api, got.team.Slug,
                                             group.Members, threshold))
    IN  withTeam(GetOrCreateTeam(ts, api, teamName, privacy))

\* the matched groups reconciled last to first
RECURSIVE syncGroups_Reversed(_, _, _, _, _, _, _)
syncGroups_Reversed(acc, ext, api, threshold, rule, matched, i) ==
    IF i > Len(matched) THEN acc
    ELSE LET group    == matched[Len(matched) + 1 - i]
             teamName == computeTeamName(group.Name, rule)
             append(one) == [acc EXCEPT !.reports = Append(@, one.report),
                                        !.teams = one.teams,
                                        !.calls = @ \o one.calls]
         IN  syncGroups_Reversed(append(syncGroupToTeam(acc.teams, ext, api, threshold,
                                                        rule, group, teamName)),
                                 ext, api, threshold, rule, matched, i + 1)

\* sync.go:201-205, the loop over the matched groups
RECURSIVE syncGroups(_, _, _, _, _, _, _)
syncGroups(acc, ext, api, threshold, rule, matched, i) ==
    IF i > Len(matched) THEN acc
    ELSE LET group    == matched[i]
             teamName == computeTeamName(group.Name, rule)
             append(one) == [acc EXCEPT !.reports = Append(@, one.report),
                                        !.teams = one.teams,
                                        !.calls = @ \o one.calls]
         IN  syncGroups(append(syncGroupToTeam(acc.teams, ext, api, threshold, rule,
                                               group, teamName)),
                        ext, api, threshold, rule, matched, i + 1)

\* a rule with neither pattern nor name failed as an empty pattern
syncRule_EmptyIsError(ts, dir, ext, api, threshold, rule) ==
    LET start == [err |-> "none", reports |-> <<>>, teams |-> ts, calls |-> <<>>,
                  queries |-> 0]
        withGroups(err, matched) ==
            IF err # "none" THEN [start EXCEPT !.err = err, !.queries = 1]
            ELSE syncGroups([start EXCEPT !.queries = 1], ext, api, threshold,
                            rule, matched, 1)
        byPattern(res) == [err |-> res.err, groups |-> res.groups]
        byName(res) ==
            [err |-> res.err,
             groups |-> IF res.err = "none" THEN <<res.group>> ELSE <<>>]
        resolve(res) == withGroups(res.err, res.groups)
    IN  IF rule.OktaGroupPattern # <<>>
        THEN resolve(byPattern(GetGroupsByPattern(dir, api, rule.OktaGroupPattern)))
        ELSE IF rule.OktaGroupName # <<>>
        THEN resolve(byName(GetGroupInfo(dir, api, rule.OktaGroupName)))
        ELSE [start EXCEPT !.err = "EmptyPattern"]

\* syncRule: [err, reports, teams, calls, queries]; err "none" when it returns reports
syncRule(ts, dir, ext, api, threshold, rule) ==
    LET start == [err |-> "none", reports |-> <<>>, teams |-> ts, calls |-> <<>>,
                  queries |-> 0]
        \* err and matched: the error, or the groups the rule resolves to
        withGroups(err, matched) ==
            IF err # "none" THEN [start EXCEPT !.err = err, !.queries = 1]
            ELSE syncGroups([start EXCEPT !.queries = 1], ext, api, threshold,
                            rule, matched, 1)
        byPattern(res) == [err |-> res.err, groups |-> res.groups]
        byName(res) ==
            [err |-> res.err,
             groups |-> IF res.err = "none" THEN <<res.group>> ELSE <<>>]
        resolve(res) == withGroups(res.err, res.groups)
    IN  IF rule.OktaGroupPattern # <<>>
        THEN resolve(byPattern(GetGroupsByPattern(dir, api, rule.OktaGroupPattern)))
        ELSE IF rule.OktaGroupName # <<>>
        THEN resolve(byName(GetGroupInfo(dir, api, rule.OktaGroupName)))
        ELSE start

\* sync.go:124-129, the report of a rule that failed
FailedReport(rule, err) ==
    [Rule |-> GetName(rule), OktaGroup |-> rule.OktaGroupName,
     GitHubTeam |-> rule.GitHubTeamName,
     MembersAdded |-> <<>>, MembersRemoved |-> <<>>,
     MembersSkippedExternal |-> <<>>, MembersSkippedNoGHUsername |-> <<>>,
     Errors |-> << [kind |-> "rule", user |-> 0, team |-> err] >>, slug |-> <<>>]

\* sync.go:111-134, the loop over the rules
RECURSIVE SyncLoop(_, _, _, _, _, _, _)
SyncLoop(acc, dir, ext, api, threshold, rs, i) ==
    IF i > Len(rs) THEN acc
    ELSE LET rule == rs[i]
         IN  IF ~IsEnabled(rule)
             THEN SyncLoop(acc, dir, ext, api, threshold, rs, i + 1)
             ELSE LET append(r) ==
                          IF r.err # "none"
                          THEN [acc EXCEPT
                                  !.failedRuleCount = @ + 1,
                                  !.reports = Append(@, FailedReport(rule, r.err)),
                                  !.queries = @ + r.queries]
                          ELSE [acc EXCEPT
                                  !.reports = @ \o r.reports,
                                  !.teams = r.teams,
                                  !.calls = @ \o r.calls,
                                  !.queries = @ + r.queries]
                  IN  SyncLoop(append(syncRule(acc.teams, dir, ext, api, threshold, rule)),
                               dir, ext, api, threshold, rs, i + 1)

\* any failed rule fails the run
AllFailed_AnyFailure(failedRuleCount, nReports) == failedRuleCount > 0

\* sync.go:136-138
AllFailed(failedRuleCount, nReports) ==
    failedRuleCount > 0 /\ failedRuleCount = nReports

\* Sync: [err, reports, failedRuleCount, teams, calls, queries]; err TRUE is the
\* "all sync rules failed" error, returned with no result
Sync(ts, dir, ext, api, threshold, rs) ==
    LET result(done) ==
            [err |-> AllFailed(done.failedRuleCount, Len(done.reports)),
             reports |-> done.reports, failedRuleCount |-> done.failedRuleCount,
             teams |-> done.teams, calls |-> done.calls, queries |-> done.queries]
    IN  result(SyncLoop([reports |-> <<>>, failedRuleCount |-> 0, teams |-> ts,
                         calls |-> <<>>, queries |-> 0],
                        dir, ext, api, threshold, rs, 1))

\* outside collaborators not excluded
DetectOrphanedUsers_KeepExternal(ts, members, ext, api, syncedTeams) ==
    IF api.orgFail THEN [err |-> TRUE, OrphanedUsers |-> <<>>, fetched |-> <<>>]
    ELSE
    LET rosterOf(i) == GetTeamMembers(ts, api, syncedTeams[i])
        syncedUsers == UNION {Range(rosterOf(i).logins) : i \in 1..Len(syncedTeams)}
        orphaned(member) ==
            /\ member \notin syncedUsers
            /\ IsExternalCollaborator(ext, api, member) # "err"
    IN  [err |-> FALSE,
         OrphanedUsers |-> SelectSeq(members, orphaned),
         fetched |-> syncedTeams]

\* the detection given up at the first roster that cannot be fetched
DetectOrphanedUsers_AbortOnRosterFailure(ts, members, ext, api, syncedTeams) ==
    IF api.orgFail
        \/ \E i \in 1..Len(syncedTeams) : GetTeamMembers(ts, api, syncedTeams[i]).err
    THEN [err |-> TRUE, OrphanedUsers |-> <<>>, fetched |-> <<>>]
    ELSE
    LET rosterOf(i) == GetTeamMembers(ts, api, syncedTeams[i])
        syncedUsers == UNION {Range(rosterOf(i).logins) : i \in 1..Len(syncedTeams)}
        orphaned(member) ==
            /\ member \notin syncedUsers
            /\ IsExternalCollaborator(ext, api, member) = "no"
    IN  [err |-> FALSE,
         OrphanedUsers |-> SelectSeq(members, orphaned),
         fetched |-> syncedTeams]

\* DetectOrphanedUsers: [err, OrphanedUsers, fetched]
DetectOrphanedUsers(ts, members, ext, api, syncedTeams) ==
    IF api.orgFail THEN [err |-> TRUE, OrphanedUsers |-> <<>>, fetched |-> <<>>]
    ELSE
    LET rosterOf(i) == GetTeamMembers(ts, api, syncedTeams[i])
        syncedUsers == UNION {Range(rosterOf(i).logins) : i \in 1..Len(syncedTeams)}
        orphaned(member) ==
            /\ member \notin syncedUsers
            /\ IsExternalCollaborator(ext, api, member) = "no"
    IN  [err |-> FALSE,
         OrphanedUsers |-> SelectSeq(members, orphaned),
         fetched |-> syncedTeams]

(***************************************************************************)
(* SpecTeam: github.Client.SyncTeamMembers called on one team, for every   *)
(* roster, desired list, collaborator classification, threshold and        *)
(* pattern of per-member API failures.                                     *)
(***************************************************************************)
TeamT == <<"t">>

\* desired lists: every set of logins in listing order, and the same with one
\* login repeated (two directory users mapped to one GitHub username)
DesiredLists ==
    {SortedSeq(S) : S \in SUBSET Users}
    \cup {SortedSeq(S) \o <<u>> : S \in SUBSET Users, u \in Users}

MemberApis ==
    {[NoFail EXCEPT !.opFail = O, !.checkFail = K] :
        O \in SUBSET Users, K \in SUBSET Users}

NoOut == [op |-> "none"]

NoProcs == <<>>

InitTeam ==
    /\ teams \in [{TeamT} -> SUBSET Users]
    /\ external \in SUBSET Users
    /\ orgMembers = {}
    /\ groups = <<>>
    /\ rules = <<>>
    /\ safetyThreshold \in Thresholds
    /\ pc = "idle"
    /\ out = NoOut
    /\ procs = NoProcs

CallSyncTeamMembers ==
    /\ pc = "idle"
    /\ \E desiredMembers \in DesiredLists, api \in MemberApis :
         \* a login is a candidate for one call only: failing both is failing one
         /\ api.opFail \cap api.checkFail = {}
         /\ LET r == SyncTeamMembers(teams, external, api, TeamT, desiredMembers, safetyThreshold)
            IN  /\ out' = [op |-> "SyncTeamMembers", current |-> teams[TeamT],
                           desired |-> desiredMembers, api |-> api,
                           err |-> r.err, res |-> r.res]
                /\ teams' = [teams EXCEPT ![TeamT] = r.res.roster]
    /\ pc' = "done"
    /\ UNCHANGED <<external, orgMembers, groups, rules, safetyThreshold, procs>>

Return ==
    /\ pc = "done"
    /\ pc' = "idle"
    /\ out' = NoOut
    /\ UNCHANGED <<teams, external, orgMembers, groups, rules, safetyThreshold, procs>>

NextTeam == CallSyncTeamMembers \/ Return

SpecTeam == InitTeam /\ [][NextTeam]_vars

(***************************************************************************)
(* SpecCeiling: SyncTeamMembers called on one team as in SpecTeam, on the  *)
(* desired lists without a repeated login and with the member calls or    *)
(* the collaborator checks failing for every login or for none.  It is     *)
(* the specification of the claims that compare the call made with other   *)
(* calls of SyncTeamMembers.                                               *)
(***************************************************************************)
CeilingApis ==
    {NoFail, [NoFail EXCEPT !.opFail = Users], [NoFail EXCEPT !.checkFail = Users]}

CallSyncTeamMembersOnSet ==
    /\ pc = "idle"
    /\ \E desiredSet \in SUBSET Users, api \in CeilingApis :
         LET r == SyncTeamMembers(teams, external, api, TeamT, SortedSeq(desiredSet),
                                  safetyThreshold)
         IN  /\ out' = [op |-> "SyncTeamMembers", current |-> teams[TeamT],
                        desired |-> SortedSeq(desiredSet), api |-> api,
                        err |-> r.err, res |-> r.res]
             /\ teams' = [teams EXCEPT ![TeamT] = r.res.roster]
    /\ pc' = "done"
    /\ UNCHANGED <<external, orgMembers, groups, rules, safetyThreshold, procs>>

NextCeiling == CallSyncTeamMembersOnSet \/ Return

SpecCeiling == InitTeam /\ [][NextCeiling]_vars

(***************************************************************************)
(* Spec: handleOktaSync (Sync, then DetectOrphanedUsers on the reported    *)
(* teams) run up to MaxRuns times in a row on a directory of three groups  *)
(* and a rule set of up to MaxRules rules.  Nothing changes between two    *)
(* runs: not the directory, not the workspace other than by the run, and   *)
(* not the API calls that fail.                                            *)
(***************************************************************************)
MaxRules == 2

MaxRuns == 2

GE == <<"g", "-", "E">>

GP == <<"g", "_", "p">>

GX == <<"x">>

TM == <<"t", "m">>

BaseRule ==
    [Name |-> <<>>, Enabled |-> "nil", OktaGroupPattern |-> <<>>,
     OktaGroupName |-> <<>>, GitHubTeamPrefix |-> <<>>, GitHubTeamName |-> <<>>,
     StripPrefix |-> <<>>, SyncMembers |-> "nil", CreateTeamIfMissing |-> TRUE,
     TeamPrivacy |-> <<>>]

\* "^g" with strip_prefix "g" and github_team_prefix "t": teams t-e and t-p
PatternRule ==
    [BaseRule EXCEPT !.Name = <<"r", "1">>, !.OktaGroupPattern = <<"^", "g">>,
                     !.StripPrefix = <<"g">>, !.GitHubTeamPrefix = <<"t">>]

\* "g" with github_team_name "tm": both groups onto the team tm
SharedRule ==
    [BaseRule EXCEPT !.OktaGroupPattern = <<"g">>, !.GitHubTeamName = TM]

\* group g-E by name, team name derived: g-e
NameRule == [BaseRule EXCEPT !.Name = <<"r", "3">>, !.OktaGroupName = GE]

NoCreateRule == [NameRule EXCEPT !.CreateTeamIfMissing = FALSE]

DisabledRule == [NameRule EXCEPT !.Enabled = "false"]

NoMembersRule == [NameRule EXCEPT !.SyncMembers = "false"]

NoMembersPatternRule == [PatternRule EXCEPT !.SyncMembers = "false"]

\* group x by name onto the team tm
NameRuleX == [BaseRule EXCEPT !.OktaGroupName = GX, !.GitHubTeamName = TM]

\* group x by name onto a team named "t m", which GitHub gives the slug t-m
SpacedNameRule ==
    [BaseRule EXCEPT !.Name = <<"r", "9">>, !.OktaGroupName = GX,
                     !.GitHubTeamName = <<"t", " ", "m">>]

MissingRule == [BaseRule EXCEPT !.OktaGroupName = <<"z">>]

BadPatternRule == [BaseRule EXCEPT !.Name = <<"r", "6">>, !.OktaGroupPattern = <<"(">>]

NoMatchRule == [BaseRule EXCEPT !.Name = <<"r", "7">>, !.OktaGroupPattern = <<"q">>]

EmptyRule == [BaseRule EXCEPT !.Name = <<"r", "8">>]

RuleCatalog ==
    {PatternRule, SharedRule, NameRule, NoCreateRule, DisabledRule, NoMembersRule,
     NoMembersPatternRule, NameRuleX, SpacedNameRule, MissingRule, BadPatternRule,
     NoMatchRule, EmptyRule}

RuleSets == UNION {[1..n -> RuleCatalog] : n \in 1..MaxRules}

TeamNames == {<<"t", "-", "e">>, <<"t", "-", "p">>, <<"g", "-", "e">>, TM}

Group(name, members) ==
    [Name |-> name, Members |-> members, SkippedNoGitHubUsername |-> <<>>]

\* the directory: g-E and g_p with some members, x with the login 1
Directories ==
    {<<Group(GE, e), Group(GP, p), Group(GX, <<1>>)>> :
        e \in {<<>>, <<1, 2>>}, p \in {<<2>>, <<2, 3>>}}

\* the workspace: no team yet, or every team with one and the same roster
Workspaces ==
    {<<>>} \cup {[n \in TeamNames |-> r] : r \in {{1}, {1, 3}}}

SyncApis ==
    {NoFail,
     [NoFail EXCEPT !.getFail = TeamNames],
     [NoFail EXCEPT !.getFail = {TM}],
     [NoFail EXCEPT !.createFail = TeamNames],
     [NoFail EXCEPT !.listFail = TeamNames],
     [NoFail EXCEPT !.opFail = {1}],
     [NoFail EXCEPT !.checkFail = Users],
     [NoFail EXCEPT !.groupsFail = TRUE],
     [NoFail EXCEPT !.membersFail = {GE}],
     [NoFail EXCEPT !.orgFail = TRUE]}

Init ==
    /\ teams \in Workspaces
    /\ external \in {{}, {1}}
    /\ orgMembers = Users \ external
    /\ groups \in Directories
    /\ rules \in RuleSets
    /\ safetyThreshold \in Thresholds
    /\ pc = "idle"
    /\ out = [op |-> "none", runs |-> 0]
    /\ procs = NoProcs

\* handlers.go:40-44: the teams handed to DetectOrphanedUsers
SyncedTeams(reports) == [i \in 1..Len(reports) |-> reports[i].GitHubTeam]

\* handleOktaSync, as run by the scheduled trigger and by the team and
\* membership webhooks
HandleOktaSync ==
    /\ out.runs < MaxRuns
    /\ \E api \in SyncApis :
         /\ out.runs > 0 => api = out.api
         /\ LET orphans(res) ==
                    IF res.err
                    THEN [err |-> TRUE, OrphanedUsers |-> <<>>, fetched |-> <<>>]
                    ELSE DetectOrphanedUsers(res.teams, SortedSeq(orgMembers),
                                             external, api, SyncedTeams(res.reports))
                result(res) ==
                    [op |-> "Sync", runs |-> out.runs + 1, api |-> api,
                     pre |-> teams, res |-> res, orphans |-> orphans(res)]
            IN  /\ out' = result(Sync(teams, groups, external, api, safetyThreshold, rules))
                /\ teams' = out'.res.teams
    /\ pc' = "done"
    /\ UNCHANGED <<external, orgMembers, groups, rules, safetyThreshold, procs>>

Next == HandleOktaSync

Spec == Init /\ [][Next]_vars

(***************************************************************************)
(* SpecOrphan: Syncer.DetectOrphanedUsers called with a list of team       *)
(* names on a workspace of two teams.                                      *)
(***************************************************************************)
TeamE == <<"t", "-", "e">>

TeamP == <<"t", "-", "p">>

\* the team lists handed in: the GitHubTeam of zero to two reports, which is
\* empty for the report of a failed rule without github_team_name
SyncedTeamLists ==
    {<<>>, <<TeamE>>, <<TeamP>>, <<TeamE, TeamP>>, <<TeamE, TeamE>>, <<TeamE, <<>>>>}

OrphanApis ==
    {[NoFail EXCEPT !.listFail = L, !.checkFail = K] :
        L \in {{}, {TeamE}}, K \in {{}, {1}, Users}}
    \cup {[NoFail EXCEPT !.orgFail = TRUE]}

InitOrphan ==
    /\ teams \in [{TeamE, TeamP} -> SUBSET Users]
    /\ external \in SUBSET Users
    /\ orgMembers \in SUBSET Users
    /\ groups = <<>>
    /\ rules = <<>>
    /\ safetyThreshold = ThresholdDen
    /\ pc = "idle"
    /\ out = NoOut
    /\ procs = NoProcs

CallDetectOrphanedUsers ==
    /\ pc = "idle"
    /\ \E syncedTeams \in SyncedTeamLists, api \in OrphanApis :
         out' = [op |-> "DetectOrphanedUsers", syncedTeams |-> syncedTeams,
                 api |-> api,
                 res |-> DetectOrphanedUsers(teams, SortedSeq(orgMembers), external,
                                             api, syncedTeams)]
    /\ pc' = "done"
    /\ UNCHANGED <<teams, external, orgMembers, groups, rules, safetyThreshold, procs>>

NextOrphan == CallDetectOrphanedUsers \/ Return

SpecOrphan == InitOrphan /\ [][NextOrphan]_vars

(***************************************************************************)
(* SpecConc: handleOktaSync invocations that overlap.  cmd/server serves   *)
(* every request on its own goroutine (net/http), and the handlers of      *)
(* /scheduled/okta-sync and of the team and membership webhooks all call   *)
(* handleOktaSync on the one App; nothing in App, Syncer or github.Client  *)
(* serialises them.  Each invocation is one entry of procs and takes one   *)
(* step per API call of Sync; no API call fails here.                      *)
(***************************************************************************)
MaxProcs == 2

Procs == 1..MaxProcs

Triggers == {"scheduled", "team", "membership"}

IdleProc ==
    [pc |-> "idle", trigger |-> "none", rule |-> 0, pending |-> <<>>,
     teamSlug |-> <<>>, desiredMembers |-> <<>>, currentMembers |-> <<>>,
     toAdd |-> <<>>, toRemove |-> <<>>]

ConcRuleSets == {<<NameRule>>, <<SharedRule>>, <<PatternRule, NameRuleX>>}

InitConc ==
    /\ teams \in {<<>>, [n \in TeamNames |-> {1}]}
    /\ external \in {{}, {1}}
    /\ orgMembers = Users \ external
    /\ groups = <<Group(GE, <<1, 2>>), Group(GP, <<2, 3>>), Group(GX, <<1>>)>>
    /\ rules \in ConcRuleSets
    /\ safetyThreshold \in Thresholds
    /\ pc = "idle"
    /\ out = NoOut
    /\ procs = [p \in Procs |-> IdleProc]

ProcFrame == UNCHANGED <<external, orgMembers, groups, rules, safetyThreshold, pc, out>>

\* ProcessScheduledEvent "okta-sync", handleTeamWebhook, handleMembershipWebhook:
\* a request arrives and its goroutine enters handleOktaSync
Trigger(p) ==
    /\ procs[p].pc = "idle"
    /\ \E t \in Triggers :
         procs' = [procs EXCEPT ![p] = [IdleProc EXCEPT !.pc = "rule", !.trigger = t, !.rule = 1]]
    /\ UNCHANGED teams
    /\ ProcFrame

\* sync.go:111-134 and syncRule: the next rule is resolved against the directory
NextRule(p) ==
    /\ procs[p].pc = "rule"
    /\ LET i == procs[p].rule
       IN  IF i > Len(rules)
           THEN procs' = [procs EXCEPT ![p].pc = "done"]
           ELSE LET rule == rules[i]
                    res  == IF rule.OktaGroupPattern # <<>>
                            THEN GetGroupsByPattern(groups, NoFail, rule.OktaGroupPattern)
                            ELSE IF rule.OktaGroupName # <<>>
                            THEN LET g == GetGroupInfo(groups, NoFail, rule.OktaGroupName)
                                 IN  [err |-> g.err,
                                      groups |-> IF g.err = "none" THEN <<g.group>> ELSE <<>>]
                            ELSE [err |-> "none", groups |-> <<>>]
                IN  IF ~IsEnabled(rule) \/ res.err # "none"
                    THEN procs' = [procs EXCEPT ![p].rule = i + 1]
                    ELSE procs' = [procs EXCEPT ![p].pc = "pair", ![p].pending = res.groups]
    /\ UNCHANGED teams
    /\ ProcFrame

\* syncGroupToTeam up to the call of SyncTeamMembers: GetOrCreateTeam
NextPair(p) ==
    /\ procs[p].pc = "pair"
    /\ IF procs[p].pending = <<>>
       THEN /\ procs' = [procs EXCEPT ![p].pc = "rule", ![p].rule = @ + 1]
            /\ UNCHANGED teams
       ELSE LET rule     == rules[procs[p].rule]
                group    == Head(procs[p].pending)
                teamName == computeTeamName(group.Name, rule)
                got      == GetOrCreateTeam(teams, NoFail, teamName, <<"closed">>)
            IN  /\ teams' = got.teams
                /\ IF got.err # "none" \/ ~ShouldSyncMembers(rule)
                   THEN procs' = [procs EXCEPT ![p].pending = Tail(@)]
                   ELSE procs' = [procs EXCEPT ![p].pc = "fetch",
                                               ![p].pending = Tail(@),
                                               ![p].teamSlug = got.team.Slug,
                                               ![p].desiredMembers = group.Members]
    /\ ProcFrame

\* teams.go:86-99: the roster is read once, and the add plan follows from it
Fetch(p) ==
    /\ procs[p].pc = "fetch"
    /\ LET fetched == GetTeamMembers(teams, NoFail, procs[p].teamSlug)
       IN  IF fetched.err
           THEN procs' = [procs EXCEPT ![p].pc = "pair"]
           ELSE procs' = [procs EXCEPT
                    ![p].pc = "add",
                    ![p].currentMembers = fetched.logins,
                    ![p].toAdd = SelectSeq(procs[p].desiredMembers,
                                    LAMBDA d : d \notin Range(fetched.logins))]
    /\ UNCHANGED teams
    /\ ProcFrame

\* teams.go:101-111: one AddTeamMembershipBySlug call
Add(p) ==
    /\ procs[p].pc = "add"
    /\ IF procs[p].toAdd = <<>>
       THEN /\ procs' = [procs EXCEPT ![p].pc = "ceiling"]
            /\ UNCHANGED teams
       ELSE /\ teams' = [teams EXCEPT ![procs[p].teamSlug] = @ \cup {Head(procs[p].toAdd)}]
            /\ procs' = [procs EXCEPT ![p].toAdd = Tail(@)]
    /\ ProcFrame

\* teams.go:113-128: the removal plan and the ceiling, from the roster read
Ceiling(p) ==
    /\ procs[p].pc = "ceiling"
    /\ LET toRemove == ToRemove(procs[p].currentMembers, Range(procs[p].desiredMembers))
       IN  IF CeilingExceeded(Len(toRemove), Len(procs[p].currentMembers), safetyThreshold)
           THEN procs' = [procs EXCEPT ![p].pc = "pair"]
           ELSE procs' = [procs EXCEPT ![p].pc = "remove", ![p].toRemove = toRemove]
    /\ UNCHANGED teams
    /\ ProcFrame

\* teams.go:130-150: one removal candidate, checked and removed
Remove(p) ==
    /\ procs[p].pc = "remove"
    /\ IF procs[p].toRemove = <<>>
       THEN /\ procs' = [procs EXCEPT ![p].pc = "pair"]
            /\ UNCHANGED teams
       ELSE LET username == Head(procs[p].toRemove)
            IN  /\ procs' = [procs EXCEPT ![p].toRemove = Tail(@)]
                /\ IF IsExternalCollaborator(external, NoFail, username) = "no"
                   THEN teams' = [teams EXCEPT ![procs[p].teamSlug] = @ \ {username}]
                   ELSE UNCHANGED teams
    /\ ProcFrame

NextConc ==
    \E p \in Procs :
        \/ Trigger(p)
        \/ NextRule(p)
        \/ NextPair(p)
        \/ Fetch(p)
        \/ Add(p)
        \/ Ceiling(p)
        \/ Remove(p)

SpecConc == InitConc /\ [][NextConc]_vars

(***************************************************************************)
(* SpecMembers: okta.Client.GetGroupMembers called on one group, for every *)
(* list of up to MaxGroupUsers directory users.  The string "" is 0, a     *)
(* GitHub username is a login and an email address is a number above      *)
(* MaxUsers.                                                               *)
(***************************************************************************)
MaxGroupUsers == 2

Emails == {MaxUsers + 1, MaxUsers + 2}

ProfileValues(strings) == {NotString} \cup {[str |-> TRUE, val |-> v] : v \in {0} \cup strings}

OktaProfiles ==
    {<<>>} \cup {<<[github |-> g, email |-> e]>> :
                    g \in ProfileValues({1, 2}), e \in ProfileValues(Emails)}

OktaUsers ==
    {[Status |-> st, Profile |-> pr] :
        st \in {"ACTIVE", "SUSPENDED", "DEPROVISIONED"}, pr \in OktaProfiles}

OktaUserLists == UNION {[1..n -> OktaUsers] : n \in 0..MaxGroupUsers}

InitMembers ==
    /\ teams = <<>>
    /\ external = {}
    /\ orgMembers = {}
    /\ groups \in {<<[Name |-> GE, Users |-> us]>> : us \in OktaUserLists}
    /\ rules = <<>>
    /\ safetyThreshold = ThresholdDen
    /\ pc = "idle"
    /\ out = NoOut
    /\ procs = NoProcs

CallGetGroupMembers ==
    /\ pc = "idle"
    /\ \E api \in {NoFail, [NoFail EXCEPT !.membersFail = {GE}]} :
         out' = [op |-> "GetGroupMembers", api |-> api,
                 res |-> GetGroupMembers(groups[1].Users, api, groups[1].Name)]
    /\ pc' = "done"
    /\ UNCHANGED <<teams, external, orgMembers, groups, rules, safetyThreshold, procs>>

NextMembers == CallGetGroupMembers \/ Return

SpecMembers == InitMembers /\ [][NextMembers]_vars

(***************************************************************************)
(* SpecName: Syncer.computeTeamName applied to a group display name of up  *)
(* to MaxNameLen characters and a rule.                                    *)
(***************************************************************************)
MaxNameLen == 3

NameChars == {"g", "E", "_", "-"}

GroupNames == UNION {[1..n -> NameChars] : n \in 1..MaxNameLen}

NamingRules ==
    {[BaseRule EXCEPT !.GitHubTeamName = tn, !.StripPrefix = sp,
                      !.GitHubTeamPrefix = tp] :
        tn \in {<<>>, <<"T", "m">>},
        sp \in {<<>>, <<"g">>, <<"E", "_">>},
        tp \in {<<>>, <<"T">>, <<"t", "_">>}}

InitName ==
    /\ teams = <<>>
    /\ external = {}
    /\ orgMembers = {}
    /\ groups \in {<<Group(n, <<>>)>> : n \in GroupNames}
    /\ rules \in {<<r>> : r \in NamingRules}
    /\ safetyThreshold = ThresholdDen
    /\ pc = "idle"
    /\ out = NoOut
    /\ procs = NoProcs

CallComputeTeamName ==
    /\ pc = "idle"
    /\ out' = [op |-> "computeTeamName",
               res |-> computeTeamName(groups[1].Name, rules[1])]
    /\ pc' = "done"
    /\ UNCHANGED <<teams, external, orgMembers, groups, rules, safetyThreshold, procs>>

NextName == CallComputeTeamName \/ Return

SpecName == InitName /\ [][NextName]_vars

(***************************************************************************)
(* internal/app/request.go: HandleRequest.  A path is the list of its      *)
(* segments ("/" is <<>>, "/scheduled/" is <<"scheduled", "">>); a         *)
(* response is its status code and the action that was run ("none" when    *)
(* none was).  env says whether the webhook signature is valid and whether *)
(* the handler that is run fails.                                          *)
(***************************************************************************)
errorResponse(status) == [StatusCode |-> status, ran |-> "none"]

\* ProcessScheduledEvent: [err, ran]
ProcessScheduledEvent(action, env) ==
    IF action \in {"okta-sync", "slack-test"}
    THEN [err |-> env.handlerFails, ran |-> action]
    ELSE [err |-> TRUE, ran |-> "none"]

handleScheduledRequest(action, env) ==
    LET respond(done) ==
            IF done.err THEN [StatusCode |-> 500, ran |-> done.ran]
            ELSE [StatusCode |-> 200, ran |-> done.ran]
    IN  respond(ProcessScheduledEvent(action, env))

handleStatusRequest(req) ==
    IF req.Method # "GET" THEN errorResponse(405)
    ELSE [StatusCode |-> 200, ran |-> "status"]

handleConfigRequest(req) ==
    IF req.Method # "GET" THEN errorResponse(405)
    ELSE [StatusCode |-> 200, ran |-> "config"]

handleWebhookRequest(req, env) ==
    IF req.Method # "POST" THEN errorResponse(405)
    ELSE IF ~env.signatureValid THEN errorResponse(401)
    ELSE IF env.handlerFails THEN [StatusCode |-> 500, ran |-> "webhook"]
    ELSE [StatusCode |-> 200, ran |-> "webhook"]

handleScheduledHTTPRequest(req, env, path) ==
    IF req.Method # "POST" THEN errorResponse(405)
    ELSE LET action == path[2]
         IN  IF action = "" THEN errorResponse(400)
             ELSE handleScheduledRequest(action, env)

\* the path without BasePath
StripBasePath(cfg, reqPath) ==
    IF cfg.BasePath # <<>> THEN TrimPrefix(reqPath, cfg.BasePath) ELSE reqPath

handleHTTPRequest(cfg, req, env) ==
    LET path == StripBasePath(cfg, req.Path)
    IN  IF path = <<"server", "status">> THEN handleStatusRequest(req)
        ELSE IF path = <<"server", "config">> THEN handleConfigRequest(req)
        ELSE IF path = <<"webhooks">> \/ path = <<>> THEN handleWebhookRequest(req, env)
        ELSE IF Len(path) = 2 /\ path[1] = "scheduled"
        THEN handleScheduledHTTPRequest(req, env, path)
        ELSE errorResponse(404)

HandleRequest(cfg, req, env) ==
    IF req.Type = "scheduled" THEN handleScheduledRequest(req.ScheduledAction, env)
    ELSE IF req.Type = "http" THEN handleHTTPRequest(cfg, req, env)
    ELSE errorResponse(400)

(***************************************************************************)
(* SpecHttp: one request handed to HandleRequest, for every configuration  *)
(* of base path and admin token.  procs holds the request and the          *)
(* configuration of the App that serves it.                                *)
(***************************************************************************)
HttpPaths ==
    LET plain == {<<>>, <<"webhooks">>, <<"server", "status">>, <<"server", "config">>,
                  <<"scheduled", "okta-sync">>, <<"scheduled", "slack-test">>,
                  <<"scheduled", "nope">>, <<"scheduled", "">>, <<"other">>}
    IN  plain \cup {<<"api">> \o p : p \in plain}

\* the authorization header: none, or a scheme and a token
AuthHeaders ==
    {<<>>} \cup {<<[scheme |-> sc, token |-> tk]>> :
                    sc \in {"Bearer", "bearer", "Basic"}, tk \in {"secret", "wrong"}}

Requests ==
    [Type : {"http", "scheduled", "other"}, Method : {"GET", "POST"},
     Path : HttpPaths, authorization : AuthHeaders,
     ScheduledAction : {"okta-sync", "nope"}]

Configs == [BasePath : {<<>>, <<"api">>}, AdminToken : {"", "secret"}]

InitHttp ==
    /\ teams = <<>>
    /\ external = {}
    /\ orgMembers = {}
    /\ groups = <<>>
    /\ rules = <<>>
    /\ safetyThreshold = ThresholdDen
    /\ pc = "idle"
    /\ out = NoOut
    /\ procs \in {<<[req |-> req, Config |-> cfg]>> : req \in Requests, cfg \in Configs}

CallHandleRequest ==
    /\ pc = "idle"
    /\ \E env \in [signatureValid : BOOLEAN, handlerFails : BOOLEAN] :
         out' = [op |-> "HandleRequest",
                 res |-> HandleRequest(procs[1].Config, procs[1].req, env)]
    /\ pc' = "done"
    /\ UNCHANGED <<teams, external, orgMembers, groups, rules, safetyThreshold, procs>>

NextHttp == CallHandleRequest \/ Return

SpecHttp == InitHttp /\ [][NextHttp]_vars

(***************************************************************************)
(* internal/app: the team and membership webhooks.  An event is what the   *)
(* payload parses to: Team and Member say whether the field is present,    *)
(* Sender is <<>> (absent) or <<[Type, Login]>>; a login is a sequence of  *)
(* its parts, so that the login of an app's bot is its slug followed by    *)
(* "[bot]".  An App is [OktaSyncEnabled, GitHubClient, OktaClient], the    *)
(* clients being there or nil.                                             *)
(***************************************************************************)
\* appSlug + "[bot]"
BotLogin(appSlug) == <<appSlug, "[bot]">>

GetSenderType(event) == IF event.Sender = <<>> THEN "" ELSE event.Sender[1].Type

GetSenderLogin(event) == IF event.Sender = <<>> THEN <<>> ELSE event.Sender[1].Login

IsTeamScope(event) == event.Scope = "team"

\* GetAppSlug: [err, slug]
GetAppSlug(env) ==
    IF env.slugFails THEN [err |-> TRUE, slug |-> ""]
    ELSE [err |-> FALSE, slug |-> env.appSlug]

\* shouldIgnoreWebhookChange (shouldIgnoreTeamChange and
\* shouldIgnoreMembershipChange in request.go are the same code)
shouldIgnoreWebhookChange(app, env, event) ==
    IF GetSenderType(event) = "Bot" THEN TRUE
    ELSE IF app.GitHubClient
    THEN LET got(r) == IF r.err THEN FALSE
                       ELSE GetSenderLogin(event) = BotLogin(r.slug)
         IN  got(GetAppSlug(env))
    ELSE FALSE

\* handleOktaSync, as far as the webhooks are concerned: [err, synced];
\* synced says that Syncer.Sync was run
handleOktaSync(app, env) ==
    IF ~app.OktaSyncEnabled THEN [err |-> FALSE, synced |-> FALSE]
    ELSE IF ~app.OktaClient \/ ~app.GitHubClient THEN [err |-> TRUE, synced |-> FALSE]
    ELSE [err |-> env.syncFails, synced |-> TRUE]

handleTeamWebhook(app, env, event) ==
    IF ~event.Team \/ event.Sender = <<>> THEN [err |-> TRUE, synced |-> FALSE]
    ELSE IF ~app.OktaSyncEnabled THEN [err |-> FALSE, synced |-> FALSE]
    ELSE IF shouldIgnoreWebhookChange(app, env, event)
    THEN [err |-> FALSE, synced |-> FALSE]
    ELSE handleOktaSync(app, env)

handleMembershipWebhook(app, env, event) ==
    IF ~event.Team \/ ~event.Member \/ event.Sender = <<>>
    THEN [err |-> TRUE, synced |-> FALSE]
    ELSE IF ~IsTeamScope(event) THEN [err |-> FALSE, synced |-> FALSE]
    ELSE IF ~app.OktaSyncEnabled THEN [err |-> FALSE, synced |-> FALSE]
    ELSE IF shouldIgnoreWebhookChange(app, env, event)
    THEN [err |-> FALSE, synced |-> FALSE]
    ELSE handleOktaSync(app, env)

\* ProcessWebhook; the pull_request handler never calls handleOktaSync
ProcessWebhook(app, env, event, eventType) ==
    IF eventType = "pull_request" THEN [err |-> env.prFails, synced |-> FALSE]
    ELSE IF eventType = "team" THEN handleTeamWebhook(app, env, event)
    ELSE IF eventType = "membership" THEN handleMembershipWebhook(app, env, event)
    ELSE [err |-> TRUE, synced |-> FALSE]

(***************************************************************************)
(* SpecHook: one webhook handed to ProcessWebhook, for every sender, App   *)
(* and outcome of the app-slug lookup.  procs holds the event, its type    *)
(* and the App that serves it.                                             *)
(***************************************************************************)
AppSlug == "app"

Senders ==
    {<<>>} \cup {<<[Type |-> t, Login |-> l]>> :
                    t \in {"Bot", "User", ""},
                    l \in {BotLogin(AppSlug), BotLogin("other"), <<"alice">>, <<>>}}

WebhookEvents ==
    [Team : BOOLEAN, Member : BOOLEAN, Sender : Senders,
     Scope : {"team", "organization"}]

EventTypes == {"pull_request", "team", "membership", "push"}

Apps == [OktaSyncEnabled : BOOLEAN, GitHubClient : BOOLEAN, OktaClient : BOOLEAN]

InitHook ==
    /\ teams = <<>>
    /\ external = {}
    /\ orgMembers = {}
    /\ groups = <<>>
    /\ rules = <<>>
    /\ safetyThreshold = ThresholdDen
    /\ pc = "idle"
    /\ out = NoOut
    /\ procs \in {<<[event |-> e, eventType |-> t, App |-> a]>> :
                    e \in WebhookEvents, t \in EventTypes, a \in Apps}

CallProcessWebhook ==
    /\ pc = "idle"
    /\ \E env \in [slugFails : BOOLEAN, syncFails : BOOLEAN, prFails : BOOLEAN,
                   appSlug : {AppSlug}] :
         out' = [op |-> "ProcessWebhook", env |-> env,
                 res |-> ProcessWebhook(procs[1].App, env, procs[1].event,
                                        procs[1].eventType)]
    /\ pc' = "done"
    /\ UNCHANGED <<teams, external, orgMembers, groups, rules, safetyThreshold, procs>>

NextHook == CallProcessWebhook \/ Return

SpecHook == InitHook /\ [][NextHook]_vars

(***************************************************************************)
(* Claims about SyncTeamMembers (SpecTeam)                                 *)
(***************************************************************************)
TeamCall == out.op = "SyncTeamMembers" /\ ~out.err

CeilingHit ==
    CeilingExceeded(Cardinality(out.current \ Range(out.desired)),
                    Cardinality(out.current), safetyThreshold)

ErrorKinds(errors) == {errors[i].kind : i \in 1..Len(errors)}

CallKinds(calls) == {calls[i][1] : i \in 1..Len(calls)}

\* C1: when the removal ratio of a non-empty roster exceeds the ceiling,
\* SyncTeamMembers issues no add and no remove call and leaves the roster as
\* it found it.
C1_CeilingWithholdsAddsAndRemoves ==
    (TeamCall /\ out.current # {} /\ CeilingHit) =>
        /\ CallKinds(out.res.calls) \cap {"add", "remove"} = {}
        /\ teams[TeamT] = out.current

\* C2 as stated: with the ceiling not triggered and no add or remove call
\* failing, the roster after SyncTeamMembers is the desired list as a set.
C2_RosterEqualsDesired ==
    (TeamCall /\ ~CeilingHit
        /\ ErrorKinds(out.res.Errors) \cap {"add", "remove"} = {}) =>
        teams[TeamT] = Range(out.desired)

\* C2 amended: with the ceiling not triggered and no add, remove or
\* outside-collaborator check failing, the roster after SyncTeamMembers is
\* the desired list plus the outside collaborators that were on the roster.
C2_RosterEqualsDesiredPlusExternal ==
    (TeamCall /\ ~CeilingHit
        /\ ErrorKinds(out.res.Errors) \cap {"add", "remove", "check"} = {}) =>
        teams[TeamT] = Range(out.desired)
                        \cup ((out.current \ Range(out.desired)) \cap external)

C2_Witness ==
    /\ TeamCall /\ ~CeilingHit /\ out.res.Errors = <<>>
    /\ out.res.MembersAdded # <<>>
    /\ out.res.MembersRemoved # <<>>
    /\ out.res.MembersSkippedExternal # <<>>

\* C4: an outside collaborator never gets a remove-member call and is never
\* listed in MembersRemoved.
C4_ExternalNeverRemoved ==
    out.op = "SyncTeamMembers" =>
        \A u \in external :
            /\ u \notin Range(out.res.MembersRemoved)
            /\ <<"remove", TeamT, u>> \notin Range(out.res.calls)

C4_Witness ==
    /\ TeamCall
    /\ \E u \in external \cap (out.current \ Range(out.desired)) :
          u \in Range(out.res.MembersSkippedExternal)
    /\ out.res.MembersRemoved # <<>>

(***************************************************************************)
(* Claims about Sync (Spec)                                                *)
(***************************************************************************)
SyncRun == out.op = "Sync"

Reports == out.res.reports

\* the rule's resolution fails, and how
ResolveErr(rule) ==
    IF rule.OktaGroupPattern # <<>>
    THEN GetGroupsByPattern(groups, out.api, rule.OktaGroupPattern).err
    ELSE IF rule.OktaGroupName # <<>>
    THEN GetGroupInfo(groups, out.api, rule.OktaGroupName).err
    ELSE "none"

EnabledRules == {i \in 1..Len(rules) : IsEnabled(rules[i])}

\* no team is reconciled by two reports of the run
DistinctTeams ==
    \A i, j \in 1..Len(Reports) :
        (i # j /\ Reports[i].slug # <<>>) => Reports[i].slug # Reports[j].slug

\* C3: the second of two runs in a row, with nothing changed in between,
\* reports no added and no removed member for any team (here for the runs
\* in which no API call fails and no two groups go to the same team).
C3_SecondRunChangesNothing ==
    (SyncRun /\ out.runs = 2 /\ ~out.res.err /\ out.api = NoFail /\ DistinctTeams) =>
        \A i \in 1..Len(Reports) :
            Reports[i].MembersAdded = <<>> /\ Reports[i].MembersRemoved = <<>>

FailsResolution(rule) ==
    IsEnabled(rule) /\ ResolveErr(rule) \in {"InvalidPattern", "GroupNotFound"}

WellFormedExactName(rule) ==
    /\ IsEnabled(rule)
    /\ rule.OktaGroupPattern = <<>> /\ rule.OktaGroupName # <<>>
    /\ ResolveErr(rule) = "none"

ErrorOnly(report) ==
    /\ Len(report.Errors) = 1 /\ report.Errors[1].kind = "rule"
    /\ report.MembersAdded = <<>> /\ report.MembersRemoved = <<>>
    /\ report.MembersSkippedExternal = <<>>

\* C5: with one rule that fails resolution and one exact-name rule that
\* resolves, Sync succeeds with two reports: an error-only report for the
\* failing rule, and for the other rule the report, and the workspace, that
\* Sync gives when the failing rule is not in the rule set.
C5_FailingRuleIsolated ==
    SyncRun =>
        \A i, j \in 1..Len(rules) :
            (Len(rules) = 2 /\ i # j
                /\ FailsResolution(rules[i]) /\ WellFormedExactName(rules[j])) =>
            LET alone == Sync(out.pre, groups, external, out.api, safetyThreshold,
                              <<rules[j]>>)
            IN  /\ ~out.res.err
                /\ Len(Reports) = 2
                /\ ErrorOnly(Reports[i])
                /\ Reports[j] = alone.reports[1]
                /\ teams = alone.teams

C5_Witness ==
    /\ SyncRun /\ Len(rules) = 2
    /\ FailsResolution(rules[1]) /\ WellFormedExactName(rules[2])
    /\ ~out.res.err
    /\ Reports[2].MembersAdded # <<>>

\* C6: Sync returns the "all sync rules failed" error exactly when there is
\* an enabled rule and every enabled rule failed.
C6_ErrorIffEveryEnabledRuleFailed ==
    SyncRun =>
        (out.res.err <=>
            /\ EnabledRules # {}
            /\ \A i \in EnabledRules : ResolveErr(rules[i]) # "none")

\* every enabled rule resolves to at least one pair, and get-or-create of
\* the team fails for every pair
EveryRuleFailsAtTeamFetch ==
    /\ SyncRun
    /\ EnabledRules # {}
    /\ \A i \in EnabledRules : ResolveErr(rules[i]) = "none"
    /\ Reports # <<>>
    /\ out.api.getFail = TeamNames

\* C7: when every rule fails at the team-fetch stage, Sync returns
\* the aggregate error.
C7_TeamFetchFailureIsTotalFailure ==
    EveryRuleFailsAtTeamFetch => out.res.err

\* C8: a rule with create_team_if_missing = false whose team does not exist
\* fails with a team error in its report, and no team is created.
C8_NoCreateWhenFlagFalse ==
    (SyncRun /\ \A i \in 1..Len(rules) : ~rules[i].CreateTeamIfMissing) =>
        /\ DOMAIN teams = DOMAIN out.pre
        /\ \A i \in 1..Len(Reports) :
              (Reports[i].GitHubTeam \notin DOMAIN out.pre
                  /\ "rule" \notin ErrorKinds(Reports[i].Errors)) =>
              "team" \in ErrorKinds(Reports[i].Errors)

(***************************************************************************)
(* Claims about DetectOrphanedUsers (SpecOrphan)                           *)
(***************************************************************************)
OrphanCall == out.op = "DetectOrphanedUsers" /\ ~out.res.err

\* the logins on the roster of a listed team
OnListedTeam ==
    UNION {teams[t] : t \in Range(out.syncedTeams) \cap DOMAIN teams}

\* the logins on the roster of a listed team whose roster fetch succeeded
OnFetchedTeam ==
    UNION {teams[t] : t \in (Range(out.syncedTeams) \cap DOMAIN teams) \ out.api.listFail}

\* C9 as stated: a workspace member is in OrphanedUsers exactly when it is on
\* the roster of none of the listed teams and is not an outside collaborator.
C9_OrphanIffUncoveredMember ==
    OrphanCall =>
        \A m \in Users :
            m \in Range(out.res.OrphanedUsers) <=>
                (m \in orgMembers /\ m \notin OnListedTeam /\ m \notin external)

\* C9 amended: a workspace member is in OrphanedUsers exactly when it is on
\* the roster of none of the listed teams whose roster could be fetched, and
\* its outside-collaborator check succeeded and answered no.
C9_OrphanIffUncoveredCheckedMember ==
    OrphanCall =>
        \A m \in Users :
            m \in Range(out.res.OrphanedUsers) <=>
                /\ m \in orgMembers
                /\ m \notin OnFetchedTeam
                /\ m \notin external
                /\ m \notin out.api.checkFail

C9_Witness ==
    /\ OrphanCall
    /\ out.syncedTeams = <<TeamE, TeamP>>
    /\ teams[TeamE] = {1, 2} /\ teams[TeamP] = {2}
    /\ orgMembers = Users /\ external = {}
    /\ out.res.OrphanedUsers = <<3>>

(***************************************************************************)
(* Claims about overlapping runs (SpecConc)                                *)
(***************************************************************************)
\* between the roster fetch of SyncTeamMembers and its return
InFlight(p) == procs[p].pc \in {"add", "ceiling", "remove"}

\* C10: at any time at most one reconciliation is in flight per team.
C10_OneReconciliationPerTeam ==
    \A p, q \in DOMAIN procs :
        (p # q /\ InFlight(p) /\ InFlight(q)) =>
            procs[p].teamSlug # procs[q].teamSlug

(***************************************************************************)
(* Further claims about Sync (Spec)                                        *)
(***************************************************************************)
RulesWithout(i) == SubSeq(rules, 1, i - 1) \o SubSeq(rules, i + 1, Len(rules))

\* C11: a rule with enabled = false is skipped entirely: the result of Sync
\* (reports, failed-rule count, aggregate error, directory queries,
\* workspace calls and rosters) is the result for the rule set without it.
C11_DisabledRuleSkipped ==
    SyncRun =>
        \A i \in 1..Len(rules) :
            rules[i].Enabled = "false" =>
                out.res = Sync(out.pre, groups, external, out.api, safetyThreshold,
                               RulesWithout(i))

C11_Witness ==
    /\ SyncRun /\ Len(rules) = 2
    /\ rules[1].Enabled = "false" /\ rules[2].Enabled # "false"
    /\ ~out.res.err
    /\ Len(Reports) = 2
    /\ out.res.calls # <<>>

(***************************************************************************)
(* Further claims about SyncTeamMembers (SpecTeam)                         *)
(***************************************************************************)
\* C12: every login in MembersRemoved was on the roster fetched at the
\* start, is not in the desired list and is not an outside collaborator;
\* every login in MembersAdded is in the desired list and was not on that
\* roster.
C12_DeltaWithinDifference ==
    TeamCall =>
        /\ Range(out.res.MembersRemoved) \subseteq
              (out.current \ Range(out.desired)) \ external
        /\ Range(out.res.MembersAdded) \subseteq
              Range(out.desired) \ out.current

C12_Witness ==
    /\ TeamCall
    /\ out.res.MembersAdded # <<>>
    /\ out.res.MembersRemoved # <<>>
    /\ (out.current \ Range(out.desired)) \cap external # {}

(***************************************************************************)
(* Claims about GetGroupMembers (SpecMembers)                              *)
(***************************************************************************)
MembersCall == out.op = "GetGroupMembers" /\ ~out.res.err

ActiveUsers ==
    {i \in 1..Len(groups[1].Users) : groups[1].Users[i].Status = "ACTIVE"}

\* C13: every ACTIVE member of the group ends in exactly one of Members and
\* SkippedNoGitHubUsername, and no other member in either: the two lists
\* together have one entry per ACTIVE member, Members holds GitHub usernames
\* of ACTIVE members and SkippedNoGitHubUsername their email addresses.
C13_ActiveMembersPartitioned ==
    MembersCall =>
        LET us == groups[1].Users
            withProfile == {i \in ActiveUsers : us[i].Profile # <<>>}
        IN  /\ Len(out.res.Members) + Len(out.res.SkippedNoGitHubUsername)
                  = Cardinality(ActiveUsers)
            /\ Range(out.res.Members) \subseteq
                  {us[i].Profile[1].github.val : i \in withProfile}
            /\ Range(out.res.SkippedNoGitHubUsername) \subseteq
                  {us[i].Profile[1].email.val : i \in withProfile}

(***************************************************************************)
(* Claims about rule resolution (Spec)                                     *)
(***************************************************************************)
\* the directory groups whose display name matches the pattern, in order
Matching(pattern) == SelectSeq(groups, LAMBDA g : MatchString(pattern, g.Name))

\* the run has one enabled rule, a pattern rule whose pattern compiles, and
\* the directory listing succeeds
OnePatternRule(i) ==
    /\ SyncRun
    /\ EnabledRules = {i}
    /\ rules[i].OktaGroupPattern # <<>>
    /\ Compiles(rules[i].OktaGroupPattern)
    /\ ~out.api.groupsFail

\* C14: every directory group whose display name matches the pattern of an
\* enabled rule yields exactly one pair and one report: the reports of the
\* run are, in order, those of the matching groups and their derived teams.
C14_EveryMatchingGroupReported ==
    \A i \in 1..Len(rules) :
        OnePatternRule(i) =>
            LET matching == Matching(rules[i].OktaGroupPattern)
            IN  /\ ~out.res.err
                /\ Len(Reports) = Len(matching)
                /\ \A k \in 1..Len(matching) :
                      /\ Reports[k].OktaGroup = matching[k].Name
                      /\ Reports[k].GitHubTeam =
                            computeTeamName(matching[k].Name, rules[i])

(***************************************************************************)
(* Claims about computeTeamName (SpecName)                                 *)
(***************************************************************************)
NameCall == out.op = "computeTeamName"

\* the group name without strip_prefix, behind github_team_prefix
Prefixed(name, rule) ==
    rule.GitHubTeamPrefix \o
        (IF rule.StripPrefix # <<>> /\ IsPrefix(rule.StripPrefix, name)
         THEN SubSeq(name, Len(rule.StripPrefix) + 1, Len(name))
         ELSE name)

\* C15: with github_team_name set computeTeamName returns it verbatim;
\* otherwise the result is, character by character, the group name without
\* strip_prefix and behind github_team_prefix, lower-cased, with "-" for
\* every character outside [a-z0-9-]: it has only characters of [a-z0-9-].
C15_DerivedTeamName ==
    NameCall =>
        LET rule == rules[1]
            src  == Prefixed(groups[1].Name, rule)
        IN  IF rule.GitHubTeamName # <<>>
            THEN out.res = rule.GitHubTeamName
            ELSE /\ Len(out.res) = Len(src)
                 /\ \A i \in 1..Len(src) :
                      /\ out.res[i] \in SlugChars
                      /\ out.res[i] = IF LowerChar(src[i]) \in SlugChars
                                      THEN LowerChar(src[i]) ELSE "-"

C15_Witness ==
    /\ NameCall
    /\ rules[1].GitHubTeamName = <<>>
    /\ rules[1].StripPrefix = <<"g">> /\ rules[1].GitHubTeamPrefix = <<"T">>
    /\ groups[1].Name = <<"g", "_", "E">>
    /\ out.res = <<"t", "-", "e">>

(***************************************************************************)
(* Claims about the reports of SyncTeamMembers (SpecTeam)                  *)
(***************************************************************************)
\* the outside collaborators on the roster that are not in the desired list
ExternalCandidates == (out.current \ Range(out.desired)) \cap external

\* C16 as stated: every outside collaborator of C \ D is listed in
\* MembersSkippedExternal.
C16_ExternalCandidatesListed ==
    TeamCall => ExternalCandidates \subseteq Range(out.res.MembersSkippedExternal)

\* C16 amended: when the ceiling is not triggered, every outside collaborator
\* of C \ D whose collaborator check succeeds is listed in
\* MembersSkippedExternal.
C16_ExternalCandidatesListedUnlessAborted ==
    (TeamCall /\ ~CeilingHit) =>
        ExternalCandidates \ out.api.checkFail
            \subseteq Range(out.res.MembersSkippedExternal)

C16_Witness ==
    /\ TeamCall /\ ~CeilingHit
    /\ Cardinality(ExternalCandidates) = 2
    /\ ExternalCandidates \cap out.api.checkFail = {}
    /\ Len(out.res.MembersSkippedExternal) = 2

\* C17: when the ceiling is triggered, MembersAdded and MembersRemoved are
\* empty and the error list has exactly one ceiling-abort entry.
C17_CeilingReportIsEmpty ==
    (TeamCall /\ out.current # {} /\ CeilingHit) =>
        /\ out.res.MembersAdded = <<>>
        /\ out.res.MembersRemoved = <<>>
        /\ Cardinality({i \in 1..Len(out.res.Errors) :
                            out.res.Errors[i].kind = "ceiling"}) = 1

(***************************************************************************)
(* Claims about rules that do not sync members (Spec)                      *)
(***************************************************************************)
\* a run in which every enabled rule has sync_members = false
NoRuleSyncsMembers ==
    /\ SyncRun
    /\ \A i \in EnabledRules : rules[i].SyncMembers = "false"

\* C18: for rules with sync_members = false the run only gets or creates
\* teams: no roster is fetched, no add or remove call is made, no roster
\* changes, and every report has empty added, removed and skipped lists.
C18_NoMemberSyncWhenFlagFalse ==
    NoRuleSyncsMembers =>
        /\ CallKinds(out.res.calls) \subseteq {"get", "create"}
        /\ \A t \in DOMAIN out.pre : teams[t] = out.pre[t]
        /\ \A k \in 1..Len(Reports) :
              /\ Reports[k].MembersAdded = <<>>
              /\ Reports[k].MembersRemoved = <<>>
              /\ Reports[k].MembersSkippedExternal = <<>>
              /\ Reports[k].slug = <<>>

C18_Witness ==
    /\ NoRuleSyncsMembers /\ ~out.res.err
    /\ Len(Reports) >= 2
    /\ \A k \in 1..Len(Reports) : Reports[k].Errors = <<>>
    /\ out.pre # <<>>
    /\ \E k \in 1..Len(Reports) :
          /\ Reports[k].GitHubTeam \in DOMAIN out.pre
          /\ out.pre[Reports[k].GitHubTeam] # Range(groups[2].Members)

(***************************************************************************)
(* Claims about failed roster fetches of DetectOrphanedUsers (SpecOrphan)  *)
(***************************************************************************)
\* the listed teams whose roster fetch fails
FailedTeams ==
    {t \in Range(out.syncedTeams) : t \in out.api.listFail \/ t \notin DOMAIN teams}

\* a call in which the member list is fetched and some roster fetch fails
RosterFetchFails ==
    /\ out.op = "DetectOrphanedUsers"
    /\ ~out.api.orgFail
    /\ FailedTeams # {}

\* C19: when the roster of a listed team cannot be fetched, the detection
\* still returns a report: the members on the rosters of the other listed
\* teams are covered, and a member on no such roster is reported although
\* it is on the roster of the team that failed.
C19_RosterFailureDoesNotAbort ==
    RosterFetchFails =>
        /\ ~out.res.err
        /\ \A m \in OnFetchedTeam : m \notin Range(out.res.OrphanedUsers)
        /\ \A m \in orgMembers \ OnFetchedTeam :
              (m \notin external /\ m \notin out.api.checkFail) =>
                  m \in Range(out.res.OrphanedUsers)

C19_Witness ==
    /\ RosterFetchFails
    /\ out.syncedTeams = <<TeamE, TeamP>> /\ FailedTeams = {TeamE}
    /\ teams[TeamE] = {1} /\ teams[TeamP] = {2}
    /\ orgMembers = Users /\ external = {}
    /\ out.res.OrphanedUsers = <<1, 3>>

(***************************************************************************)
(* Claims about HandleRequest (SpecHttp)                                   *)
(***************************************************************************)
\* an HTTP request for /server/status, /server/config or /scheduled/*
ProtectedRequest ==
    /\ out.op = "HandleRequest"
    /\ procs[1].req.Type = "http"
    /\ LET path == StripBasePath(procs[1].Config, procs[1].req.Path)
       IN  \/ path \in {<<"server", "status">>, <<"server", "config">>}
           \/ Len(path) = 2 /\ path[1] = "scheduled"

\* no admin token is configured, or the request carries "Bearer <token>",
\* the scheme in any case
Authorized ==
    \/ procs[1].Config.AdminToken = ""
    \/ /\ procs[1].req.authorization # <<>>
       /\ procs[1].req.authorization[1].scheme \in {"Bearer", "bearer"}
       /\ procs[1].req.authorization[1].token = procs[1].Config.AdminToken

\* C20: with an admin token configured, a request for a protected endpoint
\* without the matching bearer token is answered 401 and runs nothing; with
\* the token, or with no admin token configured, it is not answered 401.
C20_AdminAuthOnProtectedEndpoints ==
    ProtectedRequest =>
        IF Authorized THEN out.res.StatusCode # 401
        ELSE out.res.StatusCode = 401 /\ out.res.ran = "none"


(***************************************************************************)
(* Claims about the ceiling decision and the batch (SpecTeam)              *)
(***************************************************************************)
\* the call ended with the refusal of teams.go:123-126
Aborted == "ceiling" \in ErrorKinds(out.res.Errors)

\* |C \ D| / |C| > ceiling, in integers
RatioAboveCeiling ==
    Cardinality(out.current \ Range(out.desired)) * ThresholdDen
        > safetyThreshold * Cardinality(out.current)

\* C21: the ceiling triggers exactly when the current roster is non-empty and
\* |C \ D| / |C| is strictly greater than the ceiling; a ratio equal to or
\* below it proceeds, and an empty roster never triggers it.
C21_CeilingIffRatioStrictlyAbove ==
    TeamCall =>
        /\ Aborted <=> (out.current # {} /\ RatioAboveCeiling)
        /\ out.current = {} => ~Aborted

\* a ratio equal to the ceiling (1 of 2, ceiling 1/2) proceeds and removes
C21_Witness ==
    /\ TeamCall
    /\ out.current = {1, 2} /\ out.desired = <<2, 3>>
    /\ safetyThreshold * 2 = ThresholdDen
    /\ ~Aborted
    /\ out.res.MembersAdded = <<3>> /\ out.res.MembersRemoved = <<1>>


Attempted(kind, u) == <<kind, TeamT, u>> \in Range(out.res.calls)

\* a failed call on u is in Errors with the identity and the team
Recorded(kind, u) ==
    (u \in out.api.opFail) =>
        [kind |-> kind, user |-> u, team |-> TeamT] \in Range(out.res.Errors)

\* C23 as stated: when the ceiling is not triggered, every identity of D \ C
\* gets an add attempt and every identity of C \ D that is not an outside
\* collaborator gets a remove attempt, whichever calls fail, and a failed
\* call is recorded with the identity and the team.
C23_EveryCandidateAttempted ==
    (TeamCall /\ ~Aborted) =>
        /\ \A u \in Range(out.desired) \ out.current :
              Attempted("add", u) /\ Recorded("add", u)
        /\ \A u \in (out.current \ Range(out.desired)) \ external :
              Attempted("remove", u) /\ Recorded("remove", u)

\* C23 amended: the remove attempt is made for every identity of C \ D whose
\* outside-collaborator check succeeded and answered no.
C23_EveryCheckedCandidateAttempted ==
    (TeamCall /\ ~Aborted) =>
        /\ \A u \in Range(out.desired) \ out.current :
              Attempted("add", u) /\ Recorded("add", u)
        /\ \A u \in ((out.current \ Range(out.desired)) \ external) \ out.api.checkFail :
              Attempted("remove", u) /\ Recorded("remove", u)

\* the first add and the first remove fail, the later ones are made
C23_Witness ==
    /\ TeamCall /\ ~Aborted
    /\ out.desired = <<1, 2>> /\ out.current = {3}
    /\ out.api.opFail = {1, 3}
    /\ out.res.MembersAdded = <<2>>
    /\ Len(out.res.Errors) = 2
    /\ Attempted("remove", 3)

\* how often u is listed in s, and how many error entries name u
CountIn(s, u) == Cardinality({k \in 1..Len(s) : s[k] = u})

ErrorsOn(u) == Cardinality({k \in 1..Len(out.res.Errors) : out.res.Errors[k].user = u})

\* C27: when the ceiling is not triggered, each removal candidate of C \ D is
\* in exactly one of MembersRemoved, MembersSkippedExternal and the errors,
\* each identity of D \ C is in MembersAdded or the errors, and a candidate
\* whose outside-collaborator check fails is not removed, stays on the
\* roster and is reported as an error only.
C27_EveryCandidateAccountedOnce ==
    (TeamCall /\ ~Aborted) =>
        /\ \A u \in out.current \ Range(out.desired) :
              CountIn(out.res.MembersRemoved, u)
                + CountIn(out.res.MembersSkippedExternal, u) + ErrorsOn(u) = 1
        /\ \A u \in Range(out.desired) \ out.current :
              u \in Range(out.res.MembersAdded) \/ ErrorsOn(u) > 0
        /\ \A u \in (out.current \ Range(out.desired)) \cap out.api.checkFail :
              /\ u \notin Range(out.res.MembersRemoved)
              /\ ~Attempted("remove", u)
              /\ u \in teams[TeamT]
              /\ [kind |-> "check", user |-> u, team |-> TeamT] \in Range(out.res.Errors)

\* three candidates: one removed, one skipped, one whose check failed
C27_Witness ==
    /\ TeamCall /\ ~Aborted
    /\ out.current = Users /\ out.desired = <<>>
    /\ Len(out.res.MembersRemoved) = 1
    /\ Len(out.res.MembersSkippedExternal) = 1
    /\ ErrorKinds(out.res.Errors) = {"check"}

AddCalls(u) ==
    Cardinality({k \in 1..Len(out.res.calls) : out.res.calls[k] = <<"add", TeamT, u>>})

\* C28: within one team reconciliation no identity gets more than one
\* add-member call and MembersAdded lists no identity twice, also when the
\* desired list names an identity more than once.
C28_AtMostOneAddPerIdentity ==
    TeamCall =>
        \A u \in Users :
            /\ AddCalls(u) <= 1
            /\ CountIn(out.res.MembersAdded, u) <= 1

\* whether SyncTeamMembers refuses for the roster C, the desired list D and
\* the outside collaborators ext, the failing calls being those of the call
Refuses(C, D, ext) ==
    "ceiling" \in ErrorKinds(
        SyncTeamMembers([t \in {TeamT} |-> C], ext, out.api, TeamT, D,
                        safetyThreshold).res.Errors)

\* the roster 1..n and a desired list that leaves the k first of it out
FirstLogins(n) == 1..n

AllButFirst(k, n) == SortedSeq((k + 1)..n)

\* C30: the ceiling decision depends on |C \ D| and |C| only: it is the same
\* whichever logins are outside collaborators, and the same as for any
\* other roster and desired list with these two sizes.
C30_DecisionFromSizesOnly ==
    TeamCall =>
        \A ext \in SUBSET Users :
            /\ Refuses(out.current, out.desired, ext) <=> Aborted
            /\ Refuses(FirstLogins(Cardinality(out.current)),
                       AllButFirst(Cardinality(out.current \ Range(out.desired)),
                                   Cardinality(out.current)),
                       ext) <=> Aborted

\* refused although every removal candidate is an outside collaborator
C30_Witness ==
    /\ TeamCall /\ Aborted
    /\ out.current \ Range(out.desired) # {}
    /\ out.current \ Range(out.desired) \subseteq external
    /\ Range(out.desired) \cap out.current # {}

(***************************************************************************)
(* Claims about the pairs of a run (Spec)                                  *)
(***************************************************************************)
\* the groups an enabled rule resolves to
Pairs(rule) ==
    IF ResolveErr(rule) # "none" THEN <<>>
    ELSE IF rule.OktaGroupPattern # <<>>
    THEN GetGroupsByPattern(groups, out.api, rule.OktaGroupPattern).groups
    ELSE IF rule.OktaGroupName # <<>>
    THEN <<GetGroupInfo(groups, out.api, rule.OktaGroupName).group>>
    ELSE <<>>

\* the reports due for the first i rules: one per pair, one per failed rule
RECURSIVE ReportsDue(_)
ReportsDue(i) ==
    IF i = 0 THEN 0
    ELSE ReportsDue(i - 1)
         + (IF ~IsEnabled(rules[i]) THEN 0
            ELSE IF ResolveErr(rules[i]) # "none" THEN 1
            ELSE Len(Pairs(rules[i])))

TeamFailed(report) == "team" \in ErrorKinds(report.Errors)

\* the member calls (roster fetch, add, remove) made on a team
MemberCalls(team) ==
    {k \in 1..Len(out.res.calls) :
        /\ out.res.calls[k][1] \in {"list", "add", "remove"}
        /\ out.res.calls[k][2] = team}

\* C22: when get-or-create of the team fails for a pair, the pair's report
\* carries that error and nothing else, no roster fetch, add or remove call
\* is made for the team, and every other pair and rule still gets its report.
C22_TeamFailureStopsThePairOnly ==
    SyncRun =>
        /\ Len(Reports) = ReportsDue(Len(rules))
        /\ \A i \in 1..Len(Reports) :
              TeamFailed(Reports[i]) =>
                /\ Reports[i].Errors =
                      << [kind |-> "team", user |-> 0, team |-> Reports[i].GitHubTeam] >>
                /\ Reports[i].slug = <<>>
                /\ Reports[i].MembersAdded = <<>>
                /\ Reports[i].MembersRemoved = <<>>
                /\ Reports[i].MembersSkippedExternal = <<>>
                /\ MemberCalls(Reports[i].GitHubTeam) = {}

\* the first pair fails at get-or-create, a later one is reconciled
C22_Witness ==
    /\ SyncRun /\ Len(Reports) >= 2
    /\ TeamFailed(Reports[1])
    /\ \E j \in 2..Len(Reports) :
          /\ ~TeamFailed(Reports[j])
          /\ Reports[j].MembersAdded # <<>>
          /\ MemberCalls(Reports[j].slug) # {}


\* an enabled rule with neither okta_group_pattern nor okta_group_name
Unresolvable(rule) ==
    IsEnabled(rule) /\ rule.OktaGroupPattern = <<>> /\ rule.OktaGroupName = <<>>

\* C24: an enabled rule with both group_pattern and group_name empty resolves
\* to zero pairs: no report carries its name, it is not counted as failed,
\* and the run's reports, error, directory queries, workspace calls and
\* rosters are those of the rule set without it; alone it gives an empty,
\* successful run.
C24_EmptyRuleIsNoOp ==
    SyncRun =>
        /\ \A i \in 1..Len(rules) :
              Unresolvable(rules[i]) =>
                /\ \A k \in 1..Len(Reports) : Reports[k].Rule # GetName(rules[i])
                /\ out.res = Sync(out.pre, groups, external, out.api,
                                  safetyThreshold, RulesWithout(i))
        /\ (\A i \in 1..Len(rules) : Unresolvable(rules[i])) =>
              /\ ~out.res.err
              /\ Reports = <<>>
              /\ out.res.failedRuleCount = 0
              /\ out.res.queries = 0
              /\ out.res.calls = <<>>
              /\ teams = out.pre

\* an empty rule next to a rule that is reconciled
C24_Witness ==
    /\ SyncRun /\ Len(rules) = 2
    /\ Unresolvable(rules[1]) /\ ~Unresolvable(rules[2])
    /\ ~out.res.err
    /\ Len(Reports) = 1
    /\ Reports[1].MembersAdded # <<>>


\* an enabled pattern rule with github_team_name that matches several groups
\* and syncs members
SharedTeamRule(rule) ==
    /\ IsEnabled(rule) /\ ShouldSyncMembers(rule)
    /\ rule.OktaGroupPattern # <<>> /\ rule.GitHubTeamName # <<>>
    /\ Len(Pairs(rule)) >= 2

\* no report after those of rule i is about the team of rule i
LastOnItsTeam(i) ==
    \A k \in (ReportsDue(i) + 1)..Len(Reports) :
        Reports[k].GitHubTeam # rules[i].GitHubTeamName

\* the reports of rule i are those of its groups, in order, on its one team
InMatchOrder(i) ==
    \A k \in 1..Len(Pairs(rules[i])) :
        /\ Reports[ReportsDue(i - 1) + k].OktaGroup = Pairs(rules[i])[k].Name
        /\ Reports[ReportsDue(i - 1) + k].GitHubTeam = rules[i].GitHubTeamName

LastGroup(i) == Pairs(rules[i])[Len(Pairs(rules[i]))]

\* C25 as stated: the groups a pattern rule with team_name matches are
\* reconciled one after another onto the one team, and after Sync the
\* team's roster is the member set of the last matched group.
C25_LastWriteWins ==
    SyncRun =>
        \A i \in 1..Len(rules) :
            (SharedTeamRule(rules[i]) /\ LastOnItsTeam(i)) =>
                /\ InMatchOrder(i)
                /\ rules[i].GitHubTeamName \in DOMAIN teams
                /\ teams[rules[i].GitHubTeamName] = Range(LastGroup(i).Members)

\* C25 amended: the same, the roster being that of the last matched group
\* plus the outside collaborators its reconciliation skipped, when the
\* reconciliation of the last matched group reports no error (no ceiling
\* refusal, no failed call).
C25_LastWriteWinsWhenLastPairClean ==
    SyncRun =>
        \A i \in 1..Len(rules) :
            (SharedTeamRule(rules[i]) /\ LastOnItsTeam(i)) =>
                /\ InMatchOrder(i)
                /\ Reports[ReportsDue(i)].Errors = <<>> =>
                      /\ rules[i].GitHubTeamName \in DOMAIN teams
                      /\ teams[rules[i].GitHubTeamName] =
                            Range(LastGroup(i).Members)
                            \cup Range(Reports[ReportsDue(i)].MembersSkippedExternal)

\* the first group's members are added, the last group's reconciliation
\* removes the one that is not its member
C25_Witness ==
    /\ SyncRun /\ Len(rules) = 1 /\ SharedTeamRule(rules[1])
    /\ Len(Reports) = 2
    /\ Reports[1].MembersAdded # <<>>
    /\ Reports[2].MembersRemoved # <<>>
    /\ Reports[2].Errors = <<>>
    /\ teams[rules[1].GitHubTeamName] = Range(LastGroup(1).Members)


(***************************************************************************)
(* Claims about the webhooks (SpecHook)                                    *)
(***************************************************************************)
HookCall == out.op = "ProcessWebhook"

\* the sender is a bot, or has the login of the app's bot
FromBotOrApp ==
    /\ procs[1].event.Sender # <<>>
    /\ \/ GetSenderType(procs[1].event) = "Bot"
       \/ GetSenderLogin(procs[1].event) = BotLogin(AppSlug)

\* C26: a team or membership webhook whose sender has type "Bot" or the
\* login "<app slug>[bot]" never runs a sync; a sync is run only for a team
\* event or a team-scoped membership event of another sender.
C26_AppSenderNeverTriggersSync ==
    HookCall =>
        /\ FromBotOrApp => ~out.res.synced
        /\ out.res.synced =>
              /\ procs[1].eventType \in {"team", "membership"}
              /\ procs[1].eventType = "membership" => IsTeamScope(procs[1].event)


\* the report of a pair whose roster the reconciliation read
Reconciled(report) ==
    report.slug # <<>> /\ "sync" \notin ErrorKinds(report.Errors)

\* C29: for every report of a run, the team orphan detection fetches (the
\* report's GitHubTeam) is the team the reconciliation worked on (the slug
\* get-or-create returned), and no member of a team reconciled in the run is
\* reported as orphaned.
C29_OrphanCheckReadsReconciledTeam ==
    (SyncRun /\ ~out.res.err) =>
        \A i \in 1..Len(Reports) :
            Reconciled(Reports[i]) =>
                /\ Reports[i].GitHubTeam = Reports[i].slug
                /\ ~out.orphans.err =>
                      teams[Reports[i].slug] \cap Range(out.orphans.OrphanedUsers) = {}

====
